---- MODULE Spec2Model ----
(***************************************************************************)
(* watch-net-speed: the measurement scheduler (monitor/speed-monitor.ts)   *)
(* and the HTTP API (monitor/api-server.ts), two Node processes that share *)
(* monitor/config.json and monitor/speed_data.json.                        *)
(*                                                                         *)
(* Each process is single threaded: one callback runs at a time.  The two  *)
(* processes interleave at the granularity of file-system calls, so every  *)
(* existsSync / readFileSync / unlinkSync is one step and writeFileSync is *)
(* two (open with O_TRUNC, then write at offset 0).  Work that touches no  *)
(* file (validation, push, filter, setTimeout) belongs to the step of the  *)
(* file-system call before it.                                             *)
(*                                                                         *)
(* JS numbers are records [int, frac]: int + frac/10, one decimal digit.   *)
(* Time is in milliseconds.                                                *)
(***************************************************************************)
EXTENDS Integers, Sequences, FiniteSets, TLC

VARIABLES
    clock,            \* wall clock, ms (Date.now(), new Date())
    cfgFile,          \* monitor/config.json: [exists, text]
    dataFile,         \* monitor/speed_data.json: [exists, text]
    mpc,              \* scheduler process: [site, step] of the running callback
    awaiting,         \* runMonitor invocations suspended at `await measureSpeed()`
    result,           \* runMonitor's `result` after a successful measurement
    data,             \* runMonitor's `filteredData`, about to be saved
    dataLinked,       \* saveData's open descriptor still names speed_data.json
    timers,           \* pending Node timers of the scheduler process
    timeoutId,        \* speed-monitor.ts `timeoutId` (0 is null)
    timerSeq,         \* number of timers created so far (names the next one)
    lastConfigCheck,  \* speed-monitor.ts `lastConfigCheck`
    config,           \* what loadConfig() last returned to the scheduler
    cycles,           \* runMonitor invocations started so far
    failures,         \* measurement failures in a row, up to now
    apc,              \* API process: [op, step] of the running route handler
    req,              \* the request being handled: [op, body]
    res,              \* the last response sent: [status, cfg]
    nreq,             \* requests received so far
    resData,          \* body of the last response to a history request
    midCyclePut,      \* value of the last PUT answered 200 while a cycle ran
    argv,             \* the positional argument the scheduler was started with
    provider,         \* external-tool measureSpeed: [phase, probes, commands]
    removed           \* the readings that completed DELETEs have removed

vars == <<clock, cfgFile, dataFile, mpc, awaiting, result, data, dataLinked,
          timers, timeoutId, timerSeq, lastConfigCheck, config, cycles,
          failures, apc, req, res, nreq, resData, midCyclePut, argv,
          provider, removed>>

monitorVars == <<mpc, awaiting, result, data, dataLinked, timers, timeoutId,
                 timerSeq, lastConfigCheck, config, cycles, failures, argv,
                 provider>>
apiVars == <<apc, req, res, nreq, resData>>

-----------------------------------------------------------------------------
(* Bounds of the model *)

MaxCycles == 2
MaxRequests == 2
MaxHistory == 3

(* Program constants *)

DefaultInterval == 30
MinInterval == 1
MaxInterval == 1440
ConfigCheckMs == 10000
MsPerMinute == 60000
RetentionDays == 7
MsPerDay == 86400000

(* The clock at process start: day 8, so that seven days ago is day 1. *)
StartTime == 8 * MsPerDay

(* How long one measureSpeed() may take. *)
MeasureDurations == {1000, 10000}

-----------------------------------------------------------------------------
(* JS numbers and request bodies *)

Num(i, f) == [int |-> i, frac |-> f]
NoNum == Num(0, 0)

JNumber(i, f) == [type |-> "number", int |-> i, frac |-> f]
JString == [type |-> "string", int |-> 0, frac |-> 0]
JUndefined == [type |-> "undefined", int |-> 0, frac |-> 0]
NumberOf(body) == Num(body.int, body.frac)

(* n < k and n > k for a number n and an integer k *)
NumLess(n, k) == n.int < k
NumGreater(n, k) == n.int > k \/ (n.int = k /\ n.frac > 0)
IsInteger(n) == n.frac = 0

(* Mutant of DefaultConfig: another default interval *)
DefaultConfigSixty == Num(60, 0)
(* const defaultConfig = { intervalMinutes: 30 } *)
DefaultConfig == Num(DefaultInterval, 0)

(* intervalMinutes * 60 * 1000 *)
DelayMs(n) == n.int * MsPerMinute + n.frac * (MsPerMinute \div 10)

-----------------------------------------------------------------------------
(* JSON text of a Config: a sequence of tokens *)

DigitChars == <<"0", "1", "2", "3", "4", "5", "6", "7", "8", "9">>
IsDigit(c) == \E d \in 1..10 : DigitChars[d] = c
DigitVal(c) == (CHOOSE d \in 1..10 : DigitChars[d] = c) - 1

RECURSIVE ToDigits(_)
ToDigits(n) ==
    IF n < 10 THEN <<DigitChars[n + 1]>>
    ELSE ToDigits(n \div 10) \o <<DigitChars[(n % 10) + 1]>>

RECURSIVE FromDigits(_)
FromDigits(s) ==
    IF Len(s) = 0 THEN 0
    ELSE 10 * FromDigits(SubSeq(s, 1, Len(s) - 1)) + DigitVal(s[Len(s)])

AllDigits(s) == Len(s) > 0 /\ \A i \in 1..Len(s) : IsDigit(s[i])

(* Number -> text, as JSON.stringify prints a non-negative number *)
NumberToText(n) ==
    IF n.frac = 0 THEN ToDigits(n.int)
    ELSE ToDigits(n.int) \o <<".", DigitChars[n.frac + 1]>>

IsNumberText(s) ==
    \/ AllDigits(s)
    \/ /\ Len(s) >= 3
       /\ s[Len(s) - 1] = "."
       /\ IsDigit(s[Len(s)])
       /\ AllDigits(SubSeq(s, 1, Len(s) - 2))

TextToNumber(s) ==
    IF AllDigits(s) THEN Num(FromDigits(s), 0)
    ELSE Num(FromDigits(SubSeq(s, 1, Len(s) - 2)), DigitVal(s[Len(s)]))

(* JSON.stringify(config, null, 2) *)
StringifyConfig(n) == <<"{", "intervalMinutes", ":">> \o NumberToText(n) \o <<"}">>

(* JSON.parse succeeds on this text *)
ConfigParses(text) ==
    /\ Len(text) >= 5
    /\ text[1] = "{"
    /\ text[2] = "intervalMinutes"
    /\ text[3] = ":"
    /\ text[Len(text)] = "}"
    /\ IsNumberText(SubSeq(text, 4, Len(text) - 1))

(* JSON.parse(text).intervalMinutes *)
ParseConfig(text) == TextToNumber(SubSeq(text, 4, Len(text) - 1))

-----------------------------------------------------------------------------
(* Timestamps and the JSON text of the history *)

(* Date.prototype.toISOString: the calendar day and the time of day *)
ToISOString(t) == [day |-> t \div MsPerDay, ms |-> t % MsPerDay]
(* new Date(isoString) *)
DateParse(iso) == iso.day * MsPerDay + iso.ms

NoTs == [day |-> 0, ms |-> 0]
Reading(t) == [timestamp |-> ToISOString(t)]

TokOpen == [tok |-> "[", ts |-> NoTs]
TokClose == [tok |-> "]", ts |-> NoTs]
TokReading(r) == [tok |-> "reading", ts |-> r.timestamp]

(* JSON.stringify(results, null, 2) *)
StringifyData(rs) ==
    <<TokOpen>> \o [i \in 1..Len(rs) |-> TokReading(rs[i])] \o <<TokClose>>

DataParses(text) ==
    /\ Len(text) >= 2
    /\ text[1] = TokOpen
    /\ text[Len(text)] = TokClose
    /\ \A i \in 2..(Len(text) - 1) : text[i].tok = "reading"

ParseData(text) == [i \in 1..(Len(text) - 2) |-> [timestamp |-> text[i + 1].ts]]

-----------------------------------------------------------------------------
(* Files *)

Absent == [exists |-> FALSE, text |-> <<>>]
FileOf(text) == [exists |-> TRUE, text |-> text]

(* fs.openSync(path, 'w'): creates the file or truncates it *)
OpenTrunc(f) == FileOf(<<>>)

(* A write at offset 0 through a descriptor opened earlier: it replaces the
   first Len(new) tokens and leaves what another writer put behind them. *)
WriteAt0(f, new) ==
    IF Len(f.text) <= Len(new) THEN FileOf(new)
    ELSE FileOf(new \o SubSeq(f.text, Len(new) + 1, Len(f.text)))

(* Mutant of ReadConfig: the parsed record is not returned, the default is *)
ReadConfigAlwaysDefault(f) == DefaultConfig

(* try { JSON.parse(fs.readFileSync(CONFIG_FILE)) } catch { default } *)
ReadConfig(f) ==
    IF f.exists /\ ConfigParses(f.text) THEN ParseConfig(f.text)
    ELSE DefaultConfig

(* try { JSON.parse(fs.readFileSync(DATA_FILE)) } catch { [] } *)
ReadData(f) ==
    IF f.exists /\ DataParses(f.text) THEN ParseData(f.text) ELSE <<>>

-----------------------------------------------------------------------------
(* Retention *)

(* sevenDaysAgo = new Date(); sevenDaysAgo.setDate(getDate() - 7) *)
SevenDaysAgo(now) == now - RetentionDays * MsPerDay

(* Mutant of Prune: the filtered array is not the one that goes on to be
   saved (saveData(data)) *)
PruneKeepsAll(rs, now) == rs

(* Mutant of Prune: the kept readings come out newest first *)
PruneReversed(rs, now) ==
    LET Keep(d) == DateParse(d.timestamp) > SevenDaysAgo(now)
        kept == SelectSeq(rs, Keep)
    IN  [i \in 1..Len(kept) |-> kept[Len(kept) + 1 - i]]

(* data.filter(d => new Date(d.timestamp) > sevenDaysAgo) *)
Prune(rs, now) ==
    LET Keep(d) == DateParse(d.timestamp) > SevenDaysAgo(now)
    IN  SelectSeq(rs, Keep)

(* Mutant of PushAndFilter: the new reading is put in front (unshift) *)
PushAndFilterUnshift(loaded, r, now) == Prune(<<r>> \o loaded, now)

(* data.push(result), then the filter *)
PushAndFilter(loaded, r, now) == Prune(Append(loaded, r), now)

-----------------------------------------------------------------------------
(* Node timers *)

(* setTimeout(cb, delay) called at time now; id names the Timeout object *)
SetTimeout(ts, id, now, delay) ==
    ts \cup {[id |-> id, due |-> now + delay, delay |-> delay]}

(* if (timeoutId) clearTimeout(timeoutId) *)
ClearTimeout(ts, id) == {t \in ts : t.id # id}

(* a single-shot timer leaves the pending set when it fires *)
FiredTimers(ts, t) == ts \ {t}

-----------------------------------------------------------------------------
(* Initial state *)

Idle == [site |-> "idle", step |-> "-"]
At(site, step) == [site |-> site, step |-> step]
ApiIdle == [op |-> "idle", step |-> "-"]
NoPut == [set |-> FALSE, value |-> NoNum]
Request(op, body) == [op |-> op, body |-> body]
NoRequest == Request("none", JUndefined)

(* process.argv[2]: not given, or a number of minutes *)
NoArg == [given |-> FALSE, minutes |-> 0]
Arg(n) == [given |-> TRUE, minutes |-> n]

(* measureSpeed of the external-tool scheduler: where it is, how many times
   this invocation has run `speedtest --version` and the measurement
   command, and what checkSpeedtestCLI returned (line 66); the approximate
   provider has no such steps *)
Provider(phase, probes, commands) ==
    [phase |-> phase, probes |-> probes, commands |-> commands,
     hasSpeedtestCLI |-> FALSE]
NoProvider == Provider("none", 0, 0)

(* what res.json(...) of a history route was given: an array, one reading,
   null, undefined, or the error object of the catch *)
Body(kind, readings) == [kind |-> kind, readings |-> readings]
NoBody == Body("none", <<>>)

(* config.json on start: not there yet, or left by an earlier run: a stored
   interval, or the empty file of a run that was killed between the open and
   the write of saveConfig *)
InitialConfigFiles == {Absent, FileOf(StringifyConfig(Num(5, 0))), FileOf(<<>>)}

(* speed_data.json on start: not there yet, or left by an earlier run with
   a reading seven days old, one a second younger, and one of yesterday *)
InitialHistory ==
    <<Reading(StartTime - RetentionDays * MsPerDay),
      Reading(StartTime - RetentionDays * MsPerDay + 1000),
      Reading(StartTime - MsPerDay)>>
(* ... or an empty array, or the empty file of a run that was killed
   between the open and the write of saveData *)
InitialDataFiles ==
    {Absent, FileOf(StringifyData(InitialHistory)),
     FileOf(StringifyData(<<>>)), FileOf(<<>>)}

Init ==
    /\ clock = StartTime
    /\ cfgFile \in InitialConfigFiles
    /\ dataFile \in InitialDataFiles
    /\ mpc = At("boot", "exists")
    /\ awaiting = 0
    /\ result = Reading(0)
    /\ data = <<>>
    /\ dataLinked = FALSE
    /\ timers = {}
    /\ timeoutId = 0
    /\ timerSeq = 0
    /\ lastConfigCheck = StartTime
    /\ config = NoNum
    /\ cycles = 0
    /\ failures = 0
    /\ apc = ApiIdle
    /\ req = NoRequest
    /\ res = [status |-> 0, cfg |-> NoNum]
    /\ nreq = 0
    /\ resData = NoBody
    /\ midCyclePut = NoPut
    /\ argv = NoArg
    /\ provider = NoProvider
    /\ removed = {}

-----------------------------------------------------------------------------
(* Scheduler process: speed-monitor.ts *)

ConfigSites == {"boot", "check", "rearm"}
CycleSites == {"run", "check", "persist", "rearm"}

(* measureSpeed runs up to its first await.  The approximate provider has
   no steps of its own here; the external-tool one (part_004 line 66) issues
   `speedtest --version`, its first exec of this invocation. *)
StartMeasure(p) == IF p = NoProvider THEN p ELSE Provider("probing", 1, 0)

(* `await measureSpeed()`: the invocation is suspended, the callback ends *)
BeginMeasure ==
    /\ awaiting' = awaiting + 1
    /\ mpc' = Idle
    /\ provider' = StartMeasure(provider)
    /\ UNCHANGED <<timers, timeoutId, timerSeq>>

(* Mutant of ArmTimer: after failed measurements the delay is doubled
   (a backoff) *)
ArmTimerBackoff(cfg) ==
    /\ timers' = SetTimeout(ClearTimeout(timers, timeoutId), timerSeq + 1, clock,
                            IF failures > 0 THEN 2 * DelayMs(cfg)
                            ELSE DelayMs(cfg))
    /\ timeoutId' = timerSeq + 1
    /\ timerSeq' = timerSeq + 1
    /\ mpc' = Idle
    /\ UNCHANGED <<awaiting, provider>>

(* lines 125-129: cancel the timer of timeoutId, arm the next one *)
ArmTimer(cfg) ==
    /\ timers' = SetTimeout(ClearTimeout(timers, timeoutId),
                            timerSeq + 1, clock, DelayMs(cfg))
    /\ timeoutId' = timerSeq + 1
    /\ timerSeq' = timerSeq + 1
    /\ mpc' = Idle
    /\ UNCHANGED <<awaiting, provider>>

(* What the caller of loadConfig() does with the Config it returns *)
AfterLoadConfig(site, cfg) ==
    /\ config' = cfg
    /\ CASE site = "boot" ->
               /\ mpc' = At("run", "-")
               /\ UNCHANGED <<awaiting, timers, timeoutId, timerSeq, provider>>
         [] site = "check" -> BeginMeasure
         [] site = "rearm" -> ArmTimer(cfg)

(* loadConfig, line 37: fs.existsSync(CONFIG_FILE) *)
MonitorConfigExists ==
    /\ mpc.site \in ConfigSites
    /\ mpc.step = "exists"
    /\ mpc' = At(mpc.site, IF cfgFile.exists THEN "read" ELSE "open")
    /\ UNCHANGED <<clock, cfgFile, dataFile, awaiting, result, data, dataLinked,
                   timers, timeoutId, timerSeq, lastConfigCheck, config,
                   cycles, failures, midCyclePut>>
    /\ UNCHANGED <<argv, provider, removed>>
    /\ UNCHANGED apiVars

(* loadConfig, line 39: writeFileSync opens config.json for writing *)
MonitorConfigOpen ==
    /\ mpc.site \in ConfigSites
    /\ mpc.step = "open"
    /\ cfgFile' = OpenTrunc(cfgFile)
    /\ mpc' = At(mpc.site, "write")
    /\ UNCHANGED <<clock, dataFile, awaiting, result, data, dataLinked,
                   timers, timeoutId, timerSeq, lastConfigCheck, config,
                   cycles, failures, midCyclePut>>
    /\ UNCHANGED <<argv, provider, removed>>
    /\ UNCHANGED apiVars

(* loadConfig, lines 39-40: the default is written and returned *)
MonitorConfigWrite ==
    /\ mpc.site \in ConfigSites
    /\ mpc.step = "write"
    /\ cfgFile' = WriteAt0(cfgFile, StringifyConfig(DefaultConfig))
    /\ AfterLoadConfig(mpc.site, DefaultConfig)
    /\ UNCHANGED <<clock, dataFile, result, data, dataLinked, lastConfigCheck,
                   cycles, failures, midCyclePut>>
    /\ UNCHANGED <<argv, removed>>
    /\ UNCHANGED apiVars

(* Mutant of MonitorConfigRead: the catch also writes the default over the
   content that did not parse *)
MonitorConfigReadRepairs ==
    /\ mpc.site \in ConfigSites
    /\ mpc.step = "read"
    /\ AfterLoadConfig(mpc.site, ReadConfig(cfgFile))
    /\ cfgFile' = IF cfgFile.exists /\ ~ConfigParses(cfgFile.text)
                  THEN FileOf(StringifyConfig(DefaultConfig))
                  ELSE cfgFile
    /\ UNCHANGED <<clock, dataFile, result, data, dataLinked,
                   lastConfigCheck, cycles, failures, midCyclePut>>
    /\ UNCHANGED <<argv, removed>>
    /\ UNCHANGED apiVars

(* loadConfig, lines 42-46: read and parse, the default if that throws *)
MonitorConfigRead ==
    /\ mpc.site \in ConfigSites
    /\ mpc.step = "read"
    /\ AfterLoadConfig(mpc.site, ReadConfig(cfgFile))
    /\ UNCHANGED <<clock, cfgFile, dataFile, result, data, dataLinked,
                   lastConfigCheck, cycles, failures, midCyclePut>>
    /\ UNCHANGED <<argv, removed>>
    /\ UNCHANGED apiVars

(* Mutant of RunMonitor: the next run is also scheduled on entry, and the
   handle of that timer is not kept *)
RunMonitorEager ==
    /\ mpc.site = "run"
    /\ cycles' = cycles + 1
    /\ midCyclePut' = NoPut
    /\ timers' = SetTimeout(timers, timerSeq + 1, clock,
                            DelayMs(DefaultConfig))
    /\ timerSeq' = timerSeq + 1
    /\ IF clock - lastConfigCheck > ConfigCheckMs
       THEN /\ lastConfigCheck' = clock
            /\ mpc' = At("check", "exists")
            /\ UNCHANGED <<awaiting, provider>>
       ELSE /\ awaiting' = awaiting + 1
            /\ mpc' = Idle
            /\ provider' = StartMeasure(provider)
            /\ UNCHANGED lastConfigCheck
    /\ UNCHANGED <<clock, cfgFile, dataFile, result, data, dataLinked, config,
                   timeoutId, failures>>
    /\ UNCHANGED <<argv, removed>>
    /\ UNCHANGED apiVars

(* runMonitor, lines 97-102: entry and the throttled look at the config *)
RunMonitor ==
    /\ mpc.site = "run"
    /\ cycles' = cycles + 1
    /\ midCyclePut' = NoPut
    /\ IF clock - lastConfigCheck > ConfigCheckMs
       THEN /\ lastConfigCheck' = clock
            /\ mpc' = At("check", "exists")
            /\ UNCHANGED <<awaiting, timers, timeoutId, timerSeq, provider>>
       ELSE /\ BeginMeasure
            /\ UNCHANGED lastConfigCheck
    /\ UNCHANGED <<clock, cfgFile, dataFile, result, data, dataLinked, config,
                   failures>>
    /\ UNCHANGED <<argv, removed>>
    /\ UNCHANGED apiVars

(* Where runMonitor goes on after measureSpeed() resolved / rejected *)
AfterSuccess == At("persist", "exists")
(* Mutant of AfterFailure: saveData(filteredData) comes after the catch *)
AfterFailureSaves == At("persist", "open")
AfterFailure == At("rearm", "exists")

(* measureSpeed() settles after d ms: a reading stamped now, or an error
   that the catch of line 117 swallows *)
MeasureSettles(d, ok) ==
    /\ mpc = Idle
    /\ awaiting > 0
    /\ awaiting' = awaiting - 1
    /\ clock' = clock + d
    /\ IF ok
       THEN /\ result' = Reading(clock')
            /\ failures' = 0
            /\ mpc' = AfterSuccess
       ELSE /\ failures' = failures + 1
            /\ mpc' = AfterFailure
            /\ UNCHANGED result
    /\ UNCHANGED <<cfgFile, dataFile, data, dataLinked, timers, timeoutId,
                   timerSeq, lastConfigCheck, config, cycles, midCyclePut>>
    /\ UNCHANGED <<argv, removed>>
    /\ UNCHANGED apiVars

(* the approximate provider: fast-speedtest-api's getSpeed() is the one
   await of measureSpeed *)
MeasureDone(d, ok) ==
    /\ provider = NoProvider
    /\ MeasureSettles(d, ok)
    /\ UNCHANGED provider

(* checkSpeedtestCLI settles after d ms.  Line 56 resolved: it returns true
   and measureSpeed goes on to line 82, which issues the measurement
   command.  Line 56 rejected: the catch of line 58 returns false, line 78
   throws, and the catch of runMonitor (line 139) skips the cycle's
   loadData/saveData. *)
OoklaProbeDoneNoThrow(d, ok) ==
    /\ provider.phase = "probing"
    /\ mpc = Idle
    /\ awaiting > 0
    /\ clock' = clock + d
    /\ provider' = [phase |-> "running", probes |-> provider.probes,
                    commands |-> provider.commands + 1,
                    hasSpeedtestCLI |-> ok]
    /\ UNCHANGED <<mpc, awaiting, result, failures>>
    /\ UNCHANGED <<cfgFile, dataFile, data, dataLinked, timers, timeoutId,
                   timerSeq, lastConfigCheck, config, cycles, midCyclePut>>
    /\ UNCHANGED <<argv, removed>>
    /\ UNCHANGED apiVars

OoklaProbeDone(d, ok) ==
    /\ provider.phase = "probing"
    /\ mpc = Idle
    /\ awaiting > 0
    /\ clock' = clock + d
    /\ IF ok
       THEN /\ provider' = [phase |-> "running", probes |-> provider.probes,
                            commands |-> provider.commands + 1,
                            hasSpeedtestCLI |-> TRUE]
            /\ UNCHANGED <<mpc, awaiting, result, failures>>
       ELSE /\ provider' = [phase |-> "idle", probes |-> provider.probes,
                            commands |-> provider.commands,
                            hasSpeedtestCLI |-> FALSE]
            /\ awaiting' = awaiting - 1
            /\ failures' = failures + 1
            /\ mpc' = AfterFailure
            /\ UNCHANGED result
    /\ UNCHANGED <<cfgFile, dataFile, data, dataLinked, timers, timeoutId,
                   timerSeq, lastConfigCheck, config, cycles, midCyclePut>>
    /\ UNCHANGED <<argv, removed>>
    /\ UNCHANGED apiVars

(* the measurement command settles after d ms.  Line 82 resolved and the
   output parsed: the reading is stamped at line 86 and returned.  Line 82
   rejected, or JSON.parse or a field access threw: the catch of line 104
   rethrows into the catch of runMonitor. *)
OoklaCommandDoneSwallows(d, ok) ==
    /\ provider.phase = "running"
    /\ mpc = Idle
    /\ awaiting > 0
    /\ awaiting' = awaiting - 1
    /\ clock' = clock + d
    /\ provider' = [provider EXCEPT !.phase = "idle"]
    /\ result' = IF ok THEN Reading(clock') ELSE result
    /\ failures' = 0
    /\ mpc' = AfterSuccess
    /\ UNCHANGED <<cfgFile, dataFile, data, dataLinked, timers, timeoutId,
                   timerSeq, lastConfigCheck, config, cycles, midCyclePut>>
    /\ UNCHANGED <<argv, removed>>
    /\ UNCHANGED apiVars

OoklaCommandDone(d, ok) ==
    /\ provider.phase = "running"
    /\ mpc = Idle
    /\ awaiting > 0
    /\ awaiting' = awaiting - 1
    /\ clock' = clock + d
    /\ provider' = [provider EXCEPT !.phase = "idle"]
    /\ IF ok
       THEN /\ result' = Reading(clock')
            /\ failures' = 0
            /\ mpc' = AfterSuccess
       ELSE /\ failures' = failures + 1
            /\ mpc' = AfterFailure
            /\ UNCHANGED result
    /\ UNCHANGED <<cfgFile, dataFile, data, dataLinked, timers, timeoutId,
                   timerSeq, lastConfigCheck, config, cycles, midCyclePut>>
    /\ UNCHANGED <<argv, removed>>
    /\ UNCHANGED apiVars

(* loadData, line 21: existsSync(DATA_FILE); [] when absent, then push/filter *)
MonitorDataExists ==
    /\ mpc = At("persist", "exists")
    /\ IF dataFile.exists
       THEN /\ mpc' = At("persist", "read")
            /\ UNCHANGED data
       ELSE /\ data' = PushAndFilter(<<>>, result, clock)
            /\ mpc' = At("persist", "open")
    /\ UNCHANGED <<clock, cfgFile, dataFile, awaiting, result, dataLinked,
                   timers, timeoutId, timerSeq, lastConfigCheck, config,
                   cycles, failures, midCyclePut>>
    /\ UNCHANGED <<argv, provider, removed>>
    /\ UNCHANGED apiVars

(* Mutant of MonitorDataRead: loadData has no catch of its own, so a file
   that does not parse throws into the catch of line 117 *)
MonitorDataReadThrows ==
    /\ mpc = At("persist", "read")
    /\ IF dataFile.exists /\ ~DataParses(dataFile.text)
       THEN /\ mpc' = At("rearm", "exists")
            /\ UNCHANGED data
       ELSE /\ data' = PushAndFilter(ReadData(dataFile), result, clock)
            /\ mpc' = At("persist", "open")
    /\ UNCHANGED <<clock, cfgFile, dataFile, awaiting, result, dataLinked,
                   timers, timeoutId, timerSeq, lastConfigCheck, config,
                   cycles, failures, midCyclePut>>
    /\ UNCHANGED <<argv, provider, removed>>
    /\ UNCHANGED apiVars

(* loadData, lines 24-29, then lines 107-114 *)
MonitorDataRead ==
    /\ mpc = At("persist", "read")
    /\ data' = PushAndFilter(ReadData(dataFile), result, clock)
    /\ mpc' = At("persist", "open")
    /\ UNCHANGED <<clock, cfgFile, dataFile, awaiting, result, dataLinked,
                   timers, timeoutId, timerSeq, lastConfigCheck, config,
                   cycles, failures, midCyclePut>>
    /\ UNCHANGED <<argv, provider, removed>>
    /\ UNCHANGED apiVars

(* saveData, line 33: writeFileSync opens speed_data.json for writing *)
MonitorDataOpen ==
    /\ mpc = At("persist", "open")
    /\ dataFile' = OpenTrunc(dataFile)
    /\ dataLinked' = TRUE
    /\ mpc' = At("persist", "write")
    /\ UNCHANGED <<clock, cfgFile, awaiting, result, data, timers, timeoutId,
                   timerSeq, lastConfigCheck, config, cycles, failures,
                   midCyclePut>>
    /\ UNCHANGED <<argv, provider, removed>>
    /\ UNCHANGED apiVars

(* saveData, line 33: the array is written; to nowhere if the file was
   unlinked since it was opened *)
MonitorDataWrite ==
    /\ mpc = At("persist", "write")
    /\ dataFile' = IF dataLinked THEN WriteAt0(dataFile, StringifyData(data))
                   ELSE dataFile
    /\ dataLinked' = FALSE
    /\ mpc' = At("rearm", "exists")
    /\ UNCHANGED <<clock, cfgFile, awaiting, result, data, timers, timeoutId,
                   timerSeq, lastConfigCheck, config, cycles, failures,
                   midCyclePut>>
    /\ UNCHANGED <<argv, provider, removed>>
    /\ UNCHANGED apiVars

(* The timer armed at line 129 fires: () => runMonitor() *)
TimerFires ==
    /\ mpc = Idle
    /\ cycles < MaxCycles
    /\ \E t \in timers :
          /\ t.due <= clock
          /\ timers' = FiredTimers(timers, t)
    /\ mpc' = At("run", "-")
    /\ UNCHANGED <<clock, cfgFile, dataFile, awaiting, result, data, dataLinked,
                   timeoutId, timerSeq, lastConfigCheck, config, cycles,
                   failures, midCyclePut>>
    /\ UNCHANGED <<argv, provider, removed>>
    /\ UNCHANGED apiVars

(* Nothing runs in the scheduler process until its next timer is due *)
TimePasses ==
    /\ mpc = Idle
    /\ timers # {}
    /\ \A t \in timers : t.due > clock
    /\ clock' = CHOOSE d \in {t.due : t \in timers} :
                    \A t \in timers : d <= t.due
    /\ UNCHANGED <<cfgFile, dataFile, midCyclePut>>
    /\ UNCHANGED removed
    /\ UNCHANGED monitorVars
    /\ UNCHANGED apiVars

-----------------------------------------------------------------------------
(* API process: api-server.ts.  Route handlers are synchronous: the process
   takes the next request when the handler before it has responded. *)

(* Request bodies of PUT /api/config: intervalMinutes as sent *)
PutBodies ==
    {JNumber(-5, 0), JNumber(0, 0), JNumber(1, 0), JNumber(1, 5),
     JNumber(1440, 0), JNumber(1440, 5), JNumber(1441, 0), JString, JUndefined}

(* Mutant of InvalidInterval: the upper limit is not checked *)
InvalidIntervalNoUpperLimit(body) ==
    \/ body.type # "number"
    \/ NumLess(body, MinInterval)

(* line 85: typeof intervalMinutes !== 'number' || < 1 || > 1440 *)
InvalidInterval(body) ==
    \/ body.type # "number"
    \/ NumLess(body, MinInterval)
    \/ NumGreater(body, MaxInterval)

Respond(status, cfg) ==
    /\ res' = [status |-> status, cfg |-> cfg]
    /\ apc' = ApiIdle

(* a measurement is under way or its reading is being persisted *)
MeasuringOrPersisting == awaiting > 0 \/ mpc.site = "persist"

(* GET /api/config, lines 70-72: the handler calls loadConfig() *)
ApiGetConfig ==
    /\ apc = ApiIdle
    /\ nreq < MaxRequests
    /\ nreq' = nreq + 1
    /\ req' = Request("getConfig", JUndefined)
    /\ apc' = [op |-> "getConfig", step |-> "exists"]
    /\ UNCHANGED <<clock, cfgFile, dataFile, res, midCyclePut>>
    /\ UNCHANGED resData
    /\ UNCHANGED removed
    /\ UNCHANGED monitorVars

(* loadConfig, line 21: fs.existsSync(CONFIG_FILE) *)
ApiConfigExists ==
    /\ apc = [op |-> "getConfig", step |-> "exists"]
    /\ apc' = [op |-> "getConfig",
               step |-> IF cfgFile.exists THEN "read" ELSE "open"]
    /\ UNCHANGED <<clock, cfgFile, dataFile, req, res, nreq, midCyclePut>>
    /\ UNCHANGED resData
    /\ UNCHANGED removed
    /\ UNCHANGED monitorVars

(* loadConfig, line 23: writeFileSync opens config.json for writing *)
ApiConfigOpen ==
    /\ apc = [op |-> "getConfig", step |-> "open"]
    /\ cfgFile' = OpenTrunc(cfgFile)
    /\ apc' = [op |-> "getConfig", step |-> "write"]
    /\ UNCHANGED <<clock, dataFile, req, res, nreq, midCyclePut>>
    /\ UNCHANGED resData
    /\ UNCHANGED removed
    /\ UNCHANGED monitorVars

(* loadConfig, lines 23-24, then res.json(config) *)
ApiConfigWrite ==
    /\ apc = [op |-> "getConfig", step |-> "write"]
    /\ cfgFile' = WriteAt0(cfgFile, StringifyConfig(DefaultConfig))
    /\ Respond(200, DefaultConfig)
    /\ UNCHANGED <<clock, dataFile, req, nreq, midCyclePut>>
    /\ UNCHANGED resData
    /\ UNCHANGED removed
    /\ UNCHANGED monitorVars

(* loadConfig, lines 26-30, then res.json(config) *)
ApiConfigRead ==
    /\ apc = [op |-> "getConfig", step |-> "read"]
    /\ Respond(200, ReadConfig(cfgFile))
    /\ UNCHANGED <<clock, cfgFile, dataFile, req, nreq, midCyclePut>>
    /\ UNCHANGED resData
    /\ UNCHANGED removed
    /\ UNCHANGED monitorVars

(* PUT /api/config, lines 83-87: validation; 400 or on to saveConfig *)
ApiPutConfig(body) ==
    /\ apc = ApiIdle
    /\ nreq < MaxRequests
    /\ nreq' = nreq + 1
    /\ req' = Request("putConfig", body)
    /\ IF InvalidInterval(body)
       THEN Respond(400, NoNum)
       ELSE /\ apc' = [op |-> "putConfig", step |-> "open"]
            /\ UNCHANGED res
    /\ UNCHANGED <<clock, cfgFile, dataFile, midCyclePut>>
    /\ UNCHANGED resData
    /\ UNCHANGED removed
    /\ UNCHANGED monitorVars

(* Mutant of ApiPutOpen: saveConfig writes to DATA_FILE *)
ApiPutOpenDataFile ==
    /\ apc = [op |-> "putConfig", step |-> "open"]
    /\ dataFile' = OpenTrunc(dataFile)
    /\ apc' = [op |-> "putConfig", step |-> "write"]
    /\ UNCHANGED <<clock, cfgFile, req, res, nreq, midCyclePut>>
    /\ UNCHANGED resData
    /\ UNCHANGED removed
    /\ UNCHANGED monitorVars

(* saveConfig, line 35: writeFileSync opens config.json for writing *)
ApiPutOpen ==
    /\ apc = [op |-> "putConfig", step |-> "open"]
    /\ cfgFile' = OpenTrunc(cfgFile)
    /\ apc' = [op |-> "putConfig", step |-> "write"]
    /\ UNCHANGED <<clock, dataFile, req, res, nreq, midCyclePut>>
    /\ UNCHANGED resData
    /\ UNCHANGED removed
    /\ UNCHANGED monitorVars

(* saveConfig, line 35: the record is written; lines 90-91: 200 *)
ApiPutWrite ==
    /\ apc = [op |-> "putConfig", step |-> "write"]
    /\ cfgFile' = WriteAt0(cfgFile, StringifyConfig(NumberOf(req.body)))
    /\ Respond(200, NumberOf(req.body))
    /\ midCyclePut' =
          IF MeasuringOrPersisting \/ (midCyclePut.set /\ mpc.site = "rearm")
          THEN [set |-> TRUE, value |-> NumberOf(req.body)]
          ELSE midCyclePut
    /\ UNCHANGED <<clock, dataFile, req, nreq>>
    /\ UNCHANGED resData
    /\ UNCHANGED removed
    /\ UNCHANGED monitorVars

(* DELETE /api/speed-data, line 99 *)
ApiDelete ==
    /\ apc = ApiIdle
    /\ nreq < MaxRequests
    /\ nreq' = nreq + 1
    /\ req' = Request("delete", JUndefined)
    /\ apc' = [op |-> "delete", step |-> "exists"]
    /\ UNCHANGED <<clock, cfgFile, dataFile, res, midCyclePut>>
    /\ UNCHANGED resData
    /\ UNCHANGED removed
    /\ UNCHANGED monitorVars

(* Mutant of ApiDeleteExists: no existsSync; unlinkSync throws on a file
   that is not there and the catch answers 500 *)
ApiDeleteNoExistsCheck ==
    /\ apc = [op |-> "delete", step |-> "exists"]
    /\ IF dataFile.exists
       THEN /\ apc' = [op |-> "delete", step |-> "unlink"]
            /\ UNCHANGED res
       ELSE Respond(500, NoNum)
    /\ UNCHANGED <<clock, cfgFile, dataFile, req, nreq, midCyclePut>>
    /\ UNCHANGED resData
    /\ UNCHANGED removed
    /\ UNCHANGED monitorVars

(* line 101: fs.existsSync(DATA_FILE); line 104 when it is absent *)
ApiDeleteExists ==
    /\ apc = [op |-> "delete", step |-> "exists"]
    /\ IF dataFile.exists
       THEN /\ apc' = [op |-> "delete", step |-> "unlink"]
            /\ UNCHANGED res
       ELSE Respond(200, NoNum)
    /\ UNCHANGED <<clock, cfgFile, dataFile, req, nreq, midCyclePut>>
    /\ UNCHANGED resData
    /\ UNCHANGED removed
    /\ UNCHANGED monitorVars

(* lines 102-104: fs.unlinkSync(DATA_FILE); a descriptor the scheduler
   holds open keeps the removed file, not the name *)
ApiDeleteUnlink ==
    /\ apc = [op |-> "delete", step |-> "unlink"]
    /\ dataFile' = Absent
    /\ dataLinked' = FALSE
    /\ removed' = removed \cup {ReadData(dataFile)[i] : i \in 1..Len(ReadData(dataFile))}
    /\ Respond(200, NoNum)
    /\ UNCHANGED <<clock, cfgFile, req, nreq, resData, midCyclePut>>
    /\ UNCHANGED <<mpc, awaiting, result, data, timers, timeoutId, timerSeq,
                   lastConfigCheck, config, cycles, failures, argv, provider>>

(* res.json(body) / res.status(500).json({ error }) of a history route *)
RespondData(status, body) ==
    /\ res' = [status |-> status, cfg |-> NoNum]
    /\ resData' = body
    /\ apc' = ApiIdle

(* GET /api/speed-data, line 39 *)
ApiGetData ==
    /\ apc = ApiIdle
    /\ nreq < MaxRequests
    /\ nreq' = nreq + 1
    /\ req' = Request("getData", JUndefined)
    /\ apc' = [op |-> "getData", step |-> "exists"]
    /\ UNCHANGED <<clock, cfgFile, dataFile, res, resData, midCyclePut>>
    /\ UNCHANGED removed
    /\ UNCHANGED monitorVars

(* lines 41-43: fs.existsSync(DATA_FILE); res.json([]) when it is absent *)
ApiDataExists ==
    /\ apc = [op |-> "getData", step |-> "exists"]
    /\ IF dataFile.exists
       THEN /\ apc' = [op |-> "getData", step |-> "read"]
            /\ UNCHANGED <<res, resData>>
       ELSE RespondData(200, Body("array", <<>>))
    /\ UNCHANGED <<clock, cfgFile, dataFile, req, nreq, midCyclePut>>
    /\ UNCHANGED removed
    /\ UNCHANGED monitorVars

(* lines 45-49: the parsed file is the body; 500 when read or parse throws *)
ApiDataRead ==
    /\ apc = [op |-> "getData", step |-> "read"]
    /\ IF dataFile.exists /\ DataParses(dataFile.text)
       THEN RespondData(200, Body("array", ParseData(dataFile.text)))
       ELSE RespondData(500, Body("error", <<>>))
    /\ UNCHANGED <<clock, cfgFile, dataFile, req, nreq, midCyclePut>>
    /\ UNCHANGED removed
    /\ UNCHANGED monitorVars

(* const latest = data[data.length - 1]: undefined for an empty array *)
Latest(rs) ==
    IF Len(rs) = 0 THEN Body("undefined", <<>>)
    ELSE Body("reading", <<rs[Len(rs)]>>)

(* GET /api/speed-data/latest, line 54 *)
ApiGetLatest ==
    /\ apc = ApiIdle
    /\ nreq < MaxRequests
    /\ nreq' = nreq + 1
    /\ req' = Request("getLatest", JUndefined)
    /\ apc' = [op |-> "getLatest", step |-> "exists"]
    /\ UNCHANGED <<clock, cfgFile, dataFile, res, resData, midCyclePut>>
    /\ UNCHANGED removed
    /\ UNCHANGED monitorVars

(* lines 56-58: fs.existsSync(DATA_FILE); res.json(null) when it is absent *)
ApiLatestExists ==
    /\ apc = [op |-> "getLatest", step |-> "exists"]
    /\ IF dataFile.exists
       THEN /\ apc' = [op |-> "getLatest", step |-> "read"]
            /\ UNCHANGED <<res, resData>>
       ELSE RespondData(200, Body("null", <<>>))
    /\ UNCHANGED <<clock, cfgFile, dataFile, req, nreq, midCyclePut>>
    /\ UNCHANGED removed
    /\ UNCHANGED monitorVars

(* lines 60-65: res.json(latest); 500 when read or parse throws *)
ApiLatestRead ==
    /\ apc = [op |-> "getLatest", step |-> "read"]
    /\ IF dataFile.exists /\ DataParses(dataFile.text)
       THEN RespondData(200, Latest(ParseData(dataFile.text)))
       ELSE RespondData(500, Body("error", <<>>))
    /\ UNCHANGED <<clock, cfgFile, dataFile, req, nreq, midCyclePut>>
    /\ UNCHANGED removed
    /\ UNCHANGED monitorVars

-----------------------------------------------------------------------------
(* The system *)

MonitorStep ==
    \/ MonitorConfigExists
    \/ MonitorConfigOpen
    \/ MonitorConfigWrite
    \/ MonitorConfigRead
    \/ RunMonitor
    \/ \E d \in MeasureDurations, ok \in BOOLEAN : MeasureDone(d, ok)
    \/ MonitorDataExists
    \/ MonitorDataRead
    \/ MonitorDataOpen
    \/ MonitorDataWrite
    \/ TimerFires

ApiStep ==
    \/ ApiGetConfig
    \/ ApiConfigExists
    \/ ApiConfigOpen
    \/ ApiConfigWrite
    \/ ApiConfigRead
    \/ \E body \in PutBodies : ApiPutConfig(body)
    \/ ApiPutOpen
    \/ ApiPutWrite
    \/ ApiDelete
    \/ ApiDeleteExists
    \/ ApiDeleteUnlink
    \/ ApiGetData
    \/ ApiDataExists
    \/ ApiDataRead
    \/ ApiGetLatest
    \/ ApiLatestExists
    \/ ApiLatestRead

Next == MonitorStep \/ ApiStep \/ TimePasses

Spec == Init /\ [][Next]_vars

-----------------------------------------------------------------------------
(* Storage errors in the scheduler process: a file-system call fails (EACCES,
   EIO, ENOSPC ...) although the file is as the model says. *)

Crashed == At("crashed", "-")

(* loadConfig, line 37: existsSync answers false when the look-up fails *)
FaultConfigExists ==
    /\ mpc.site \in ConfigSites
    /\ mpc.step = "exists"
    /\ mpc' = At(mpc.site, "open")
    /\ UNCHANGED <<clock, cfgFile, dataFile, awaiting, result, data, dataLinked,
                   timers, timeoutId, timerSeq, lastConfigCheck, config,
                   cycles, failures, midCyclePut>>
    /\ UNCHANGED <<argv, provider, removed>>
    /\ UNCHANGED apiVars

(* loadConfig, line 39: writeFileSync throws; nothing catches it at lines
   100, 122 and 133, so the process ends with its timers *)
FaultConfigWrite ==
    /\ mpc.site \in ConfigSites
    /\ mpc.step \in {"open", "write"}
    /\ mpc' = Crashed
    /\ timers' = {}
    /\ awaiting' = 0
    /\ UNCHANGED <<clock, cfgFile, dataFile, result, data, dataLinked,
                   timeoutId, timerSeq, lastConfigCheck, config, cycles,
                   failures, midCyclePut>>
    /\ UNCHANGED <<argv, provider, removed>>
    /\ UNCHANGED apiVars

(* loadConfig, lines 43-45: readFileSync throws, the catch returns the default *)
FaultConfigRead ==
    /\ mpc.site \in ConfigSites
    /\ mpc.step = "read"
    /\ AfterLoadConfig(mpc.site, DefaultConfig)
    /\ UNCHANGED <<clock, cfgFile, dataFile, result, data, dataLinked,
                   lastConfigCheck, cycles, failures, midCyclePut>>
    /\ UNCHANGED <<argv, removed>>
    /\ UNCHANGED apiVars

(* loadData, lines 21-29: existsSync answers false or readFileSync throws;
   either way loadData returns [] *)
FaultDataRead ==
    /\ mpc.site = "persist"
    /\ mpc.step \in {"exists", "read"}
    /\ data' = PushAndFilter(<<>>, result, clock)
    /\ mpc' = At("persist", "open")
    /\ UNCHANGED <<clock, cfgFile, dataFile, awaiting, result, dataLinked,
                   timers, timeoutId, timerSeq, lastConfigCheck, config,
                   cycles, failures, midCyclePut>>
    /\ UNCHANGED <<argv, provider, removed>>
    /\ UNCHANGED apiVars

(* saveData, line 33: writeFileSync throws, the catch of line 117 logs it *)
FaultDataWrite ==
    /\ mpc.site = "persist"
    /\ mpc.step \in {"open", "write"}
    /\ dataLinked' = FALSE
    /\ mpc' = At("rearm", "exists")
    /\ UNCHANGED <<clock, cfgFile, dataFile, awaiting, result, data, timers,
                   timeoutId, timerSeq, lastConfigCheck, config, cycles,
                   failures, midCyclePut>>
    /\ UNCHANGED <<argv, provider, removed>>
    /\ UNCHANGED apiVars

FaultStep ==
    \/ FaultConfigExists
    \/ FaultConfigWrite
    \/ FaultConfigRead
    \/ FaultDataRead
    \/ FaultDataWrite

FaultNext == Next \/ FaultStep

FaultSpec == Init /\ [][FaultNext]_vars

-----------------------------------------------------------------------------
(* The persist steps of one successful cycle (lines 106-116) on any history
   an earlier run can have left: the scheduler has started on a stored
   interval of 5 minutes, its first measurement took a second and resolved. *)

(* When the readings of the stored history were taken, relative to now: a
   second more than seven days ago, seven days ago, a second less, a day
   ago, a second ago *)
HistoryTimes(now) ==
    {SevenDaysAgo(now) - 1000, SevenDaysAgo(now), SevenDaysAgo(now) + 1000,
     now - MsPerDay, now - 1000}

(* Histories of up to MaxHistory readings, oldest first as runMonitor
   leaves them *)
Histories(now) ==
    LET Seqs == UNION {[1..n -> HistoryTimes(now)] : n \in 0..MaxHistory}
        Ordered(ts) == \A i \in 1..(Len(ts) - 1) : ts[i] <= ts[i + 1]
    IN  {[i \in 1..Len(ts) |-> Reading(ts[i])] : ts \in {t \in Seqs : Ordered(t)}}

PersistInit ==
    /\ clock = StartTime + 1000
    /\ cfgFile = FileOf(StringifyConfig(Num(5, 0)))
    /\ dataFile \in {Absent} \cup {FileOf(StringifyData(h)) : h \in Histories(clock)}
    /\ mpc = AfterSuccess
    /\ awaiting = 0
    /\ result = Reading(clock)
    /\ data = <<>>
    /\ dataLinked = FALSE
    /\ timers = {}
    /\ timeoutId = 0
    /\ timerSeq = 0
    /\ lastConfigCheck = StartTime
    /\ config = Num(5, 0)
    /\ cycles = 1
    /\ failures = 0
    /\ apc = ApiIdle
    /\ req = NoRequest
    /\ res = [status |-> 0, cfg |-> NoNum]
    /\ nreq = 0
    /\ resData = NoBody
    /\ midCyclePut = NoPut
    /\ argv = NoArg
    /\ provider = NoProvider
    /\ removed = {}

PersistNext ==
    \/ MonitorDataExists
    \/ MonitorDataRead
    \/ MonitorDataOpen
    \/ MonitorDataWrite

PersistSpec == PersistInit /\ [][PersistNext]_vars

-----------------------------------------------------------------------------
(* The scheduler started with a positional argument, as in
   `npm run monitor 10`; the API is not running *)

CliArgs == {Arg(1), Arg(10), Arg(1440)}

CliInit ==
    /\ clock = StartTime
    /\ cfgFile \in InitialConfigFiles
    /\ dataFile \in InitialDataFiles
    /\ mpc = At("boot", "exists")
    /\ awaiting = 0
    /\ result = Reading(0)
    /\ data = <<>>
    /\ dataLinked = FALSE
    /\ timers = {}
    /\ timeoutId = 0
    /\ timerSeq = 0
    /\ lastConfigCheck = StartTime
    /\ config = NoNum
    /\ cycles = 0
    /\ failures = 0
    /\ apc = ApiIdle
    /\ req = NoRequest
    /\ res = [status |-> 0, cfg |-> NoNum]
    /\ nreq = 0
    /\ resData = NoBody
    /\ midCyclePut = NoPut
    /\ argv \in CliArgs
    /\ provider = NoProvider
    /\ removed = {}

CliNext == MonitorStep \/ TimePasses

CliSpec == CliInit /\ [][CliNext]_vars

(* ---------------------------------------------------------------------- *)
(* The scheduler of part_004, whose measureSpeed drives the Ookla          *)
(* `speedtest` command line tool.  Its loadData, saveData, loadConfig and  *)
(* runMonitor (lines 25-52 and 113-148) are the text of speed-monitor.ts   *)
(* lines 20-47 and 95-130, so the same actions model them; measureSpeed    *)
(* is the two awaited exec calls of lines 54-108.                          *)
(* ---------------------------------------------------------------------- *)
ProbeDurations == {100, 1000}

OoklaInit ==
    /\ clock = StartTime
    /\ cfgFile \in InitialConfigFiles
    /\ dataFile \in InitialDataFiles
    /\ mpc = At("boot", "exists")
    /\ awaiting = 0
    /\ result = Reading(0)
    /\ data = <<>>
    /\ dataLinked = FALSE
    /\ timers = {}
    /\ timeoutId = 0
    /\ timerSeq = 0
    /\ lastConfigCheck = StartTime
    /\ config = NoNum
    /\ cycles = 0
    /\ failures = 0
    /\ apc = ApiIdle
    /\ req = NoRequest
    /\ res = [status |-> 0, cfg |-> NoNum]
    /\ nreq = 0
    /\ resData = NoBody
    /\ midCyclePut = NoPut
    /\ argv = NoArg
    /\ provider = Provider("idle", 0, 0)
    /\ removed = {}

OoklaNext ==
    \/ MonitorConfigExists
    \/ MonitorConfigOpen
    \/ MonitorConfigWrite
    \/ MonitorConfigRead
    \/ RunMonitor
    \/ \E d \in ProbeDurations, ok \in BOOLEAN : OoklaProbeDone(d, ok)
    \/ \E d \in MeasureDurations, ok \in BOOLEAN : OoklaCommandDone(d, ok)
    \/ MonitorDataExists
    \/ MonitorDataRead
    \/ MonitorDataOpen
    \/ MonitorDataWrite
    \/ TimerFires
    \/ TimePasses

OoklaSpec == OoklaInit /\ [][OoklaNext]_vars

-----------------------------------------------------------------------------
(* Properties *)

(* runMonitor invocations between their entry and their timer-arm step *)
InFlight == awaiting + (IF mpc.site \in CycleSites THEN 1 ELSE 0)

(* the timer that timeoutId names, if it is still pending *)
ArmedTimers == {t \in timers : t.id = timeoutId}

(* C1: at most one timer is pending at any time, and it is the one armed
   last: when runMonitor arms a timer, every timer armed before has fired or
   has been cancelled. *)
C1_AtMostOnePendingTimer ==
    /\ Cardinality(timers) <= 1
    /\ timers = ArmedTimers

(* runMonitor has armed its second timer and that timer is pending *)
C1_Witness ==
    /\ timerSeq = 2
    /\ Cardinality(timers) = 1
    /\ mpc = Idle

(* C2: at most one measurement cycle is in flight: no runMonitor invocation
   starts while another is between its entry and its timer-arm step, however
   long the measurement takes and whatever the interval is. *)
C2_OneCycleInFlight == InFlight <= 1

(* the second cycle is measuring, the first has armed its timer and ended *)
C2_Witness ==
    /\ cycles = 2
    /\ awaiting = 1
    /\ mpc = Idle
    /\ timerSeq = 1

(* C3: when a PUT /api/config answered 200 while the cycle was measuring or
   persisting, the timer armed at the end of that cycle has the delay of the
   interval that the (last such) PUT stored. *)
C3_MidCyclePutTakesEffect ==
    (midCyclePut.set /\ mpc = Idle /\ awaiting = 0)
        => \A t \in ArmedTimers : t.delay = DelayMs(midCyclePut.value)

(* C4: no step of the scheduler in a cycle whose measurement failed touches
   the history file, and such a cycle never reaches the persist steps; this
   for every failed cycle in a row. *)
C4_FailedCycleKeepsHistory ==
    [][(mpc' # mpc /\ failures' > 0)
          => (dataFile' = dataFile /\ mpc'.site # "persist")]_vars

(* two cycles failed in a row and the history of the earlier run is intact,
   the readings a successful cycle would have pruned included *)
C4_Witness ==
    /\ failures = 2
    /\ mpc = Idle
    /\ awaiting = 0
    /\ dataFile = FileOf(StringifyData(InitialHistory))

(* C5: the step that ends a failed cycle arms a new timer, due after the
   interval the config store holds at that moment (the stored
   intervalMinutes, 30 when no record can be read) times 60000 ms: no retry
   delay, no backoff, also after several failures in a row. *)
C5_FailedCycleArmsNormalInterval ==
    [][(mpc.site = "rearm" /\ mpc' = Idle /\ failures > 0)
          => \E t \in timers' :
                /\ t \notin timers
                /\ t.id = timeoutId'
                /\ t.delay = DelayMs(ReadConfig(cfgFile))
                /\ t.due = clock + t.delay
                /\ timers' = {t}]_vars

(* the second failed cycle in a row has armed its timer with a stored
   interval that is not the default *)
C5_Witness ==
    /\ failures = 2
    /\ mpc = Idle
    /\ awaiting = 0
    /\ \E t \in ArmedTimers : t.delay = DelayMs(Num(5, 0))

(* C6: the scheduler has no terminal state: whatever error the measurement
   or a storage call of the cycle raises, a cycle that has started does not
   end the process (it goes on to arm its timer). *)
C6_StartedCycleNeverStops == ~(cycles > 0 /\ mpc = Crashed)

(* C7: whenever config.json holds a record, its intervalMinutes is an
   integer in 1..1440. *)
C7_StoredIntervalIsIntegerInRange ==
    (cfgFile.exists /\ ConfigParses(cfgFile.text))
        => /\ IsInteger(ParseConfig(cfgFile.text))
           /\ ParseConfig(cfgFile.text).int \in 1..1440

(* a number below 1 or above 1440 *)
OutOfRange(body) ==
    /\ body.type = "number"
    /\ (NumLess(body, 1) \/ NumGreater(body, 1440))

(* C8: a PUT /api/config whose intervalMinutes is a number outside [1,1440]
   is answered 400 and leaves config.json as it was, so a load after it
   returns what was stored before. *)
C8_OutOfRangePutRejected ==
    [][(nreq' = nreq + 1 /\ req'.op = "putConfig" /\ OutOfRange(req'.body))
          => /\ res' = [status |-> 400, cfg |-> NoNum]
             /\ apc' = ApiIdle
             /\ cfgFile' = cfgFile]_vars

(* 1441 has been rejected and the 1440 stored by the request before it is
   still there *)
C8_Witness ==
    /\ req = Request("putConfig", JNumber(1441, 0))
    /\ res.status = 400
    /\ apc = ApiIdle
    /\ cfgFile.exists
    /\ ConfigParses(cfgFile.text)
    /\ ParseConfig(cfgFile.text) = Num(1440, 0)

(* the steps at which a loadConfig() returns what it read *)
ApiLoadReturns == apc = [op |-> "getConfig", step |-> "read"] /\ apc' = ApiIdle
MonitorLoadReturns ==
    mpc.site \in ConfigSites /\ mpc.step = "read" /\ mpc' # mpc

(* C9: a save of intervalMinutes = i that no other write interferes with
   leaves a record whose intervalMinutes is i, and a load, by the API or by
   the scheduler, returns the intervalMinutes of the record it finds: save(i)
   then load gives i. *)
C9_SaveThenLoadReturnsSaved ==
    [][/\ (apc = [op |-> "putConfig", step |-> "write"] /\ apc' = ApiIdle
             /\ cfgFile.text = <<>>)
          => /\ res' = [status |-> 200, cfg |-> NumberOf(req.body)]
             /\ cfgFile'.exists
             /\ ConfigParses(cfgFile'.text)
             /\ ParseConfig(cfgFile'.text) = NumberOf(req.body)
       /\ (ApiLoadReturns /\ ConfigParses(cfgFile.text))
          => /\ res' = [status |-> 200, cfg |-> ParseConfig(cfgFile.text)]
             /\ cfgFile' = cfgFile
       /\ (MonitorLoadReturns /\ ConfigParses(cfgFile.text))
          => /\ config' = ParseConfig(cfgFile.text)
             /\ cfgFile' = cfgFile]_vars

(* 1440 was saved; the scheduler's load and then the API's returned 1440 *)
C9_Witness ==
    /\ req.op = "getConfig"
    /\ apc = ApiIdle
    /\ nreq = 2
    /\ res = [status |-> 200, cfg |-> Num(1440, 0)]
    /\ config = Num(1440, 0)

(* the steps at which a loadConfig() has written the default *)
ApiLoadWrites == apc = [op |-> "getConfig", step |-> "write"] /\ apc' = ApiIdle
MonitorLoadWrites ==
    mpc.site \in ConfigSites /\ mpc.step = "write" /\ mpc' # mpc

(* the record { intervalMinutes: 30 } as it stands in the file *)
DefaultRecord == FileOf(<<"{", "intervalMinutes", ":", "3", "0", "}">>)

(* C10: a load that finds no config.json goes on to write one, and (no
   other writer coming in between) leaves exactly the record
   { intervalMinutes: 30 } and returns it; a load that finds config.json
   reads it and writes nothing, so the second load returns the stored 30. *)
C10_LoadMaterializesDefaultOnce ==
    [][/\ (apc = [op |-> "getConfig", step |-> "exists"] /\ apc' # apc)
          => apc'.step = (IF cfgFile.exists THEN "read" ELSE "open")
       /\ (mpc.site \in ConfigSites /\ mpc.step = "exists" /\ mpc' # mpc)
          => mpc'.step = (IF cfgFile.exists THEN "read" ELSE "open")
       /\ (ApiLoadWrites /\ cfgFile.text = <<>>)
          => /\ cfgFile' = DefaultRecord
             /\ res' = [status |-> 200, cfg |-> Num(30, 0)]
       /\ (MonitorLoadWrites /\ cfgFile.text = <<>>)
          => /\ cfgFile' = DefaultRecord
             /\ config' = Num(30, 0)
       /\ (ApiLoadReturns /\ cfgFile = DefaultRecord)
          => /\ cfgFile' = cfgFile
             /\ res' = [status |-> 200, cfg |-> Num(30, 0)]
       /\ (MonitorLoadReturns /\ cfgFile = DefaultRecord)
          => /\ cfgFile' = cfgFile
             /\ config' = Num(30, 0)]_vars

(* the API's first load wrote the default and returned it (the scheduler
   has not looked at the file yet); its second load has found the file and
   is about to read it *)
C10_Witness ==
    /\ nreq = 2
    /\ apc = [op |-> "getConfig", step |-> "read"]
    /\ res = [status |-> 200, cfg |-> Num(30, 0)]
    /\ cfgFile = DefaultRecord
    /\ mpc = At("boot", "exists")

(* config.json is there and JSON.parse throws on it *)
ConfigCorrupt == cfgFile.exists /\ ~ConfigParses(cfgFile.text)

(* a write step of saveConfig, or of a loadConfig that had found no file *)
ConfigWriteStep ==
    \/ apc.op = "putConfig" /\ apc' # apc
    \/ apc.op = "getConfig" /\ apc.step \in {"open", "write"} /\ apc' # apc
    \/ mpc.site \in ConfigSites /\ mpc.step \in {"open", "write"} /\ mpc' # mpc

(* C11: a load that finds config.json and cannot parse it returns
   { intervalMinutes: 30 } and leaves the file as it is, in the API and in
   the scheduler; content that does not parse changes only by a write of
   saveConfig (or of a load that had found no file before the content got
   there), never by the load that read it. *)
C11_CorruptConfigIsNotRewritten ==
    [][/\ (ApiLoadReturns /\ ConfigCorrupt)
          => /\ res' = [status |-> 200, cfg |-> Num(30, 0)]
             /\ cfgFile' = cfgFile
       /\ (MonitorLoadReturns /\ ConfigCorrupt)
          => /\ config' = Num(30, 0)
             /\ cfgFile' = cfgFile
       /\ (ConfigCorrupt /\ cfgFile' # cfgFile) => ConfigWriteStep]_vars

(* the scheduler and then the API have loaded the config from the empty
   file an earlier run left; both got 30 and the file is still empty *)
C11_Witness ==
    /\ config = Num(30, 0)
    /\ mpc.site = "rearm"
    /\ req.op = "getConfig"
    /\ apc = ApiIdle
    /\ nreq = 1
    /\ res = [status |-> 200, cfg |-> Num(30, 0)]
    /\ cfgFile = FileOf(<<>>)

(* speed_data.json is there and JSON.parse throws on it *)
DataCorrupt == dataFile.exists /\ ~DataParses(dataFile.text)

(* C12: when speed_data.json does not parse, loadData returns [] and the
   cycle goes on: the array to save is the new reading alone, it stays that
   through saveData, and the write (no DELETE having removed the file under
   it) leaves a file that parses to exactly that one reading. *)
C12_CorruptHistoryRestartsWithOneReading ==
    [][/\ (mpc = At("persist", "read") /\ mpc' # mpc /\ DataCorrupt)
          => /\ mpc' = At("persist", "open")
             /\ data' = <<result>>
             /\ result' = result
       /\ (mpc = At("persist", "open") /\ mpc' # mpc)
          => /\ mpc' = At("persist", "write")
             /\ data' = data
             /\ dataLinked'
       /\ (mpc = At("persist", "write") /\ mpc' # mpc /\ dataLinked)
          => /\ DataParses(dataFile'.text)
             /\ ParseData(dataFile'.text) = data
             /\ mpc' = At("rearm", "exists")]_vars

(* the first cycle has loaded the empty file an earlier run left, got [],
   and is about to save its reading alone *)
C12_Witness ==
    /\ cycles = 1
    /\ nreq = 0
    /\ mpc = At("persist", "open")
    /\ dataFile = FileOf(<<>>)
    /\ data = <<result>>
    /\ result = Reading(clock)

(* what loadData returned plus the new reading: the input of the filter *)
Pushed == Append(ReadData(dataFile), result)

(* the readings of rs that are not older than seven days at time now, the
   one taken exactly seven days ago included *)
WithinWindow(rs, now) ==
    LET InWindow(d) == DateParse(d.timestamp) >= now - RetentionDays * MsPerDay
    IN  SelectSeq(rs, InWindow)

(* C13: the filter at time now removes exactly the readings whose timestamp
   is before now - 7 days and keeps all others: the reading taken exactly
   seven days ago stays, the one a second older goes, the one a second
   younger stays. *)
C13_PruneKeepsBoundary ==
    mpc = At("persist", "open") => data = WithinWindow(Pushed, clock)

RECURSIVE IsSubSeq(_, _)
(* a can be got from b by leaving elements out, the order kept *)
IsSubSeq(a, b) ==
    IF Len(a) = 0 THEN TRUE
    ELSE IF Len(b) = 0 THEN FALSE
    ELSE IF Head(a) = Head(b) THEN IsSubSeq(Tail(a), Tail(b))
    ELSE IsSubSeq(a, Tail(b))

(* C14: the filter is idempotent and keeps the order: filtering its own
   output at the same time again changes nothing, and the readings it kept
   stand in the order they had in its input. *)
C14_PruneIdempotentOrderPreserving ==
    mpc = At("persist", "open")
        => /\ Prune(data, clock) = data
           /\ IsSubSeq(data, Pushed)

(* of three stored readings the filter removed one; two different stored
   readings and the new one are kept *)
C14_Witness ==
    /\ mpc = At("persist", "open")
    /\ Len(ReadData(dataFile)) = 3
    /\ Len(data) = 3
    /\ data[1] # data[2]
    /\ data[3] = result

(* C15: when the measurement succeeded and none of the stored readings is
   older than seven days, the array the cycle saves is the stored readings,
   unchanged, followed by the new reading (one longer than before), and
   that array is what the file holds when saveData has returned. *)
C15_AppendGrowsByOne ==
    /\ (mpc = At("persist", "open")
          /\ WithinWindow(ReadData(dataFile), clock) = ReadData(dataFile))
       => /\ Len(data) = Len(ReadData(dataFile)) + 1
          /\ SubSeq(data, 1, Len(data) - 1) = ReadData(dataFile)
          /\ data[Len(data)] = result
    /\ mpc = At("rearm", "exists")
       => /\ DataParses(dataFile.text)
          /\ ParseData(dataFile.text) = data

(* the timestamps of rs are all within the seven days before now *)
AllWithinWindow(rs, now) ==
    \A i \in 1..Len(rs) :
        /\ DateParse(rs[i].timestamp) >= now - RetentionDays * MsPerDay
        /\ DateParse(rs[i].timestamp) <= now

(* C16: the step that ends saveData in a successful cycle leaves a history
   (if DELETE has not removed the file under it) whose readings were all
   taken within the seven days before the instant of that cycle's filter;
   no older reading is left. *)
C16_PersistedReadingsWithinWindow ==
    [][(mpc = At("persist", "write") /\ mpc' # mpc /\ dataLinked)
          => /\ DataParses(dataFile'.text)
             /\ AllWithinWindow(ParseData(dataFile'.text), clock)
             /\ clock' = clock]_vars

(* the first cycle has saved: the two stored readings that were older than
   seven days are gone, yesterday's and the new one are there *)
C16_Witness ==
    /\ cycles = 1
    /\ failures = 0
    /\ mpc = At("rearm", "exists")
    /\ clock = StartTime + 10000
    /\ dataFile = FileOf(StringifyData(<<Reading(StartTime - MsPerDay), result>>))

(* timestamps never decrease along rs *)
Chronological(rs) ==
    \A i \in 1..Len(rs) : \A j \in i..Len(rs) :
        DateParse(rs[i].timestamp) <= DateParse(rs[j].timestamp)

(* C17: the stored history is always in chronological order, and that is
   the order of insertion: the array a cycle saves ends with the new
   reading, before it the stored readings it kept in their stored order;
   saveData stores that array as it is; no API step changes the file other
   than by removing it. *)
C17_HistoryChronological ==
    /\ []((dataFile.exists /\ DataParses(dataFile.text))
            => Chronological(ParseData(dataFile.text)))
    /\ [][/\ (mpc' # mpc /\ mpc' = At("persist", "open"))
             => /\ data'[Len(data')] = result
                /\ IsSubSeq(SubSeq(data', 1, Len(data') - 1), ReadData(dataFile))
          /\ (mpc = At("persist", "write") /\ mpc' # mpc /\ dataLinked)
             => ParseData(dataFile'.text) = data
          /\ (apc' # apc) => (dataFile' = dataFile \/ dataFile' = Absent)]_vars

(* two cycles have saved: yesterday's reading, the first cycle's and the
   second's, in that order *)
C17_Witness ==
    /\ cycles = 2
    /\ mpc = At("rearm", "exists")
    /\ dataFile.exists
    /\ DataParses(dataFile.text)
    /\ Len(ParseData(dataFile.text)) = 3
    /\ ParseData(dataFile.text)[1] = Reading(StartTime - MsPerDay)
    /\ ParseData(dataFile.text)[3] = result

(* a step of the API process *)
ApiActs == apc' # apc \/ nreq' # nreq

(* the file holds, after the step, a reading it did not hold before *)
ReadingAppears ==
    \E i \in 1..Len(ReadData(dataFile')) :
        \A j \in 1..Len(ReadData(dataFile)) :
            ReadData(dataFile')[i] # ReadData(dataFile)[j]

(* C18: no step of an API request changes speed_data.json, except that a
   step of DELETE may remove it; a reading that was not in the file appears
   only by the write of saveData in a cycle whose measurement succeeded. *)
C18_ApiNeverAppends ==
    [][/\ ApiActs => \/ dataFile' = dataFile
                     \/ req.op = "delete" /\ dataFile' = Absent
       /\ ReadingAppears
          => /\ mpc = At("persist", "write")
             /\ mpc' = At("rearm", "exists")
             /\ failures = 0]_vars

(* GET /api/speed-data has returned the stored history and a PUT has been
   answered 200; the stored history is as it was *)
C18_Witness ==
    /\ nreq = 2
    /\ req.op = "putConfig"
    /\ apc = ApiIdle
    /\ res.status = 200
    /\ resData = Body("array", InitialHistory)
    /\ dataFile = FileOf(StringifyData(InitialHistory))

(* C19: the step that completes DELETE /api/speed-data answers 200 and
   leaves no speed_data.json, whether there was one or not; the file then
   stays absent until saveData of a successful cycle creates it; while it
   is absent GET /api/speed-data answers [] and loadData returns [] (the
   cycle's array is the new reading alone). *)
C19_DeleteLeavesEmptyHistory ==
    [][/\ (apc.op = "delete" /\ apc' = ApiIdle)
          => /\ dataFile' = Absent
             /\ res' = [status |-> 200, cfg |-> NoNum]
       /\ (dataFile = Absent /\ dataFile' # Absent)
          => /\ mpc = At("persist", "open")
             /\ mpc' # mpc
             /\ failures = 0
       /\ (apc.op = "getData" /\ apc' = ApiIdle /\ dataFile = Absent)
          => /\ res'.status = 200
             /\ resData' = Body("array", <<>>)
       /\ (mpc.site = "persist" /\ mpc.step \in {"exists", "read"}
             /\ mpc'.step = "open" /\ dataFile = Absent)
          => data' = <<result>>]_vars

(* GET /api/speed-data showed the stored history, DELETE has since been
   answered 200, and the cycle that loaded after it got []: the array it is
   about to save is its own reading alone *)
C19_Witness ==
    /\ nreq = 2
    /\ req.op = "delete"
    /\ apc = ApiIdle
    /\ res.status = 200
    /\ resData = Body("array", InitialHistory)
    /\ dataFile = Absent
    /\ mpc = At("persist", "open")
    /\ data = <<result>>

(* C20: GET /api/speed-data/latest answers with the last reading of the
   stored history when there is one, and with null when speed_data.json is
   absent or holds an empty array. *)
C20_LatestIsLastOrNull ==
    [][(apc.op = "getLatest" /\ apc' = ApiIdle /\ ~DataCorrupt)
          => /\ res'.status = 200
             /\ resData' =
                   IF Len(ReadData(dataFile)) = 0 THEN Body("null", <<>>)
                   ELSE Body("reading",
                             <<ReadData(dataFile)[Len(ReadData(dataFile))]>>)]_vars

(* C21: a reader never sees a record half written.  The scheduler started
   on a stored interval of 5; when it reads config.json while the first PUT
   is between the open and the write of saveConfig, it gets 5 or the value
   of the PUT.  When the API reads speed_data.json while saveData is between
   its open and its write of an array that holds stored readings, it gets
   an array and answers 200. *)
C21_ReadersSeeWholeRecords ==
    [][/\ (MonitorLoadReturns /\ config = Num(5, 0) /\ nreq = 1
             /\ apc = [op |-> "putConfig", step |-> "write"])
          => config' \in {Num(5, 0), NumberOf(req.body)}
       /\ (apc.op \in {"getData", "getLatest"} /\ apc.step = "read"
             /\ apc' = ApiIdle
             /\ mpc = At("persist", "write") /\ dataLinked /\ Len(data) >= 2)
          => res'.status = 200]_vars

(* C26: once a PUT /api/config of a valid value i has been answered 200,
   and as long as no later request has come in, config.json holds a record
   whose intervalMinutes is i, whatever loadConfig of the scheduler or of
   the API had found the file absent before. *)
C26_PutNotLostToDefault ==
    (req.op = "putConfig" /\ apc = ApiIdle /\ res.status = 200)
        => /\ cfgFile.exists
           /\ ConfigParses(cfgFile.text)
           /\ ParseConfig(cfgFile.text) = NumberOf(req.body)

(* C27: a reading that a completed DELETE /api/speed-data has removed is
   never in speed_data.json again: what the file holds after the DELETE are
   readings of cycles that loaded and saved after it. *)
C27_DeleteNotUndone ==
    \A i \in 1..Len(ReadData(dataFile)) : ReadData(dataFile)[i] \notin removed

(* C23: a stored reading is never changed, and it leaves speed_data.json
   only when DELETE removes the file or when a successful cycle saves an
   array without it because, at that cycle's filter, it was older than seven
   days.  No other step of the scheduler or of the API touches the file; the
   array a cycle saves holds every stored reading that is not older than
   seven days, as it was stored. *)
C23_ReadingsLeaveOnlyByPruneOrDelete ==
    [][/\ ApiActs => \/ dataFile' = dataFile
                     \/ req.op = "delete" /\ dataFile' = Absent
       /\ (mpc' # mpc /\ ~(mpc.site = "persist" /\ mpc.step \in {"open", "write"}))
          => dataFile' = dataFile
       /\ (mpc = At("persist", "open") /\ mpc' # mpc)
          => \A i \in 1..Len(ReadData(dataFile)) :
                \/ \E j \in 1..Len(data) : data[j] = ReadData(dataFile)[i]
                \/ DateParse(ReadData(dataFile)[i].timestamp)
                      < clock - RetentionDays * MsPerDay
       /\ (mpc = At("persist", "write") /\ mpc' # mpc)
          => IF dataLinked
             THEN DataParses(dataFile'.text) /\ ParseData(dataFile'.text) = data
             ELSE dataFile' = dataFile]_vars

(* C22: when the scheduler was started with a positional argument n in
   1..1440, the first timer it arms is due after n minutes, whatever
   config.json holds. *)
C22_ArgumentSetsInitialInterval ==
    (argv.given /\ argv.minutes \in MinInterval..MaxInterval /\ timerSeq = 1)
        => \A t \in ArmedTimers : t.delay = argv.minutes * MsPerMinute

(* ---------------------------------------------------------------------- *)
(* C24: in the external-tool provider every measureSpeed invocation runs   *)
(* the version probe exactly once and before the measurement command: the  *)
(* command is issued only at the completion of the one probe, and at most  *)
(* once.  When the probe fails the command is not run in that invocation,  *)
(* measureSpeed rejects (the cycle goes to its re-arm without a reading),  *)
(* and the history file is not written for the rest of that cycle.         *)
(* ---------------------------------------------------------------------- *)
ProbeFailed ==
    provider.phase = "idle" /\ provider.probes = 1 /\ ~provider.hasSpeedtestCLI

C24_ProbeOnceBeforeCommand ==
    /\ [](/\ provider.phase = "probing"
              => provider.probes = 1 /\ provider.commands = 0
          /\ provider.phase = "running"
              => /\ provider.probes = 1 /\ provider.commands = 1
                 /\ provider.hasSpeedtestCLI
          /\ (provider.phase = "idle" /\ cycles > 0)
              => /\ provider.probes = 1
                 /\ provider.commands = IF provider.hasSpeedtestCLI THEN 1 ELSE 0)
    /\ [][/\ provider'.commands > provider.commands
              => /\ provider.phase = "probing" /\ provider.probes = 1
                 /\ provider.commands = 0 /\ provider'.probes = 1
          /\ (provider.phase = "probing" /\ provider'.phase # "probing"
                 /\ ~provider'.hasSpeedtestCLI)
              => /\ provider'.phase = "idle" /\ provider'.commands = 0
                 /\ awaiting' = awaiting - 1
                 /\ mpc' = AfterFailure
                 /\ result' = result /\ dataFile' = dataFile
          /\ ProbeFailed => dataFile' = dataFile]_vars

C24_Witness ==
    /\ ProbeFailed /\ provider.commands = 0
    /\ cycles = 1 /\ mpc = Idle /\ awaiting = 0 /\ timers # {}

(* ---------------------------------------------------------------------- *)
(* C25: the two scheduler implementations are interchangeable.  Seen from  *)
(* runMonitor, every step of the external-tool measureSpeed either leaves  *)
(* everything but the clock as it was (the invocation is still pending),   *)
(* or is exactly the settlement of the approximate provider's measureSpeed *)
(* with the same outcome at the same clock; every other step of the        *)
(* external-tool scheduler is a step of the runMonitor/loadData/saveData/  *)
(* loadConfig text the two files share.  So with the same outcomes, clock  *)
(* and config contents both do the same loads, prunes, writes, config      *)
(* reads and timer arms and reach the same stored history and timer.       *)
(* ---------------------------------------------------------------------- *)
ProviderStep ==
    provider.phase \in {"probing", "running"} /\ provider' # provider

StillPending ==
    /\ clock' >= clock
    /\ UNCHANGED <<cfgFile, dataFile, mpc, awaiting, result, data, dataLinked,
                   timers, timeoutId, timerSeq, lastConfigCheck, config,
                   cycles, failures, midCyclePut, argv, removed>>
    /\ UNCHANGED apiVars

C25_SchedulersInterchangeable ==
    [][/\ ProviderStep
          => \/ StillPending
             \/ \E ok \in BOOLEAN : MeasureSettles(clock' - clock, ok)
       /\ ~ProviderStep
          => \/ provider' = provider
             \/ provider.phase = "idle" /\ provider' = StartMeasure(provider)
                   /\ awaiting' = awaiting + 1]_vars

C25_Witness ==
    /\ provider = [Provider("idle", 1, 1) EXCEPT !.hasSpeedtestCLI = TRUE]
    /\ cycles = 2 /\ failures = 0 /\ mpc = Idle /\ awaiting = 0
    /\ timers # {} /\ timerSeq = 2
    /\ dataFile.exists /\ DataParses(dataFile.text)
    /\ Len(ReadData(dataFile)) >= 2
    /\ ReadData(dataFile)[Len(ReadData(dataFile))] = result

====
